---- MODULE Spec2Model ----
(***************************************************************************)
(* Model of html-helper (src/src/index.mjs): the traversal, search,        *)
(* removal and head-mutation helpers over the JSON AST of an HTML          *)
(* document.                                                               *)
(*                                                                         *)
(* JavaScript values are tagged records, so that `typeof`, `Array.isArray` *)
(* and truthiness are decided the way the engine decides them:             *)
(*   undefined          [type |-> "undefined"]                             *)
(*   null               [type |-> "null"]                                  *)
(*   a string (text)    [type |-> "string", value |-> s]                   *)
(*   an array of roots  [type |-> "array", items |-> <<...>>]              *)
(*   an element         [type |-> "object", name |-> s, attribs |-> e,     *)
(*                       children |-> <<...>>]                             *)
(* attribs is the sequence of the object's own entries [key, value] in     *)
(* insertion order (the order Object.entries yields); a property the       *)
(* object does not have is a field the record does not have.               *)
(***************************************************************************)
EXTENDS Integers, Sequences, FiniteSets, TLC

VARIABLES root, pre, op, arg, visited, calls, result, resources, threw, steps, html, dom

vars == <<root, pre, op, arg, visited, calls, result, resources, threw, steps, html, dom>>

(***************************************************************************)
(* Bounds of the model.                                                    *)
(***************************************************************************)
MaxKids == 2

MaxOps == 2

(***************************************************************************)
(* JavaScript values.                                                      *)
(***************************************************************************)
Undefined == [type |-> "undefined"]

Null == [type |-> "null"]

Str(s) == [type |-> "string", value |-> s]

Arr(items) == [type |-> "array", items |-> items]

Obj(entries) == [type |-> "object", entries |-> entries]

KV(k, v) == [key |-> k, value |-> v]

El(name, attribs, children) ==
  [type |-> "object", name |-> name, attribs |-> attribs, children |-> children]

IsString(v) == v.type = "string"

IsArray(v) == v.type = "array"

IsElement(v) == v.type = "object" /\ "name" \in DOMAIN v

\* !v for the values a node position can hold
Falsy(v) ==
  \/ v.type \in {"undefined", "null"}
  \/ v.type = "string" /\ v.value = ""

\* node.children is not undefined (node.children?.x runs x)
HasChildren(node) == node.type = "object" /\ "children" \in DOMAIN node

HasAttribs(node) == node.type = "object" /\ "attribs" \in DOMAIN node

\* node.name as a JavaScript value ('text'.name is undefined)
NameOf(node) == IF IsElement(node) THEN Str(node.name) ELSE Undefined

\* entries[key] of a plain object
Get(entries, key) ==
  IF \E i \in 1..Len(entries) : entries[i].key = key
  THEN Str(entries[CHOOSE i \in 1..Len(entries) : entries[i].key = key].value)
  ELSE Undefined

\* view.attribs?.[key]
AttrOf(attribs, key) ==
  IF attribs.type = "object" THEN Get(attribs.entries, key) ELSE Undefined

\* A string of the model is a sequence of ASCII characters.  The upper-case
\* letters and, at the same index, their lower-case letters
UpperCase == "ABCDEFGHIJKLMNOPQRSTUVWXYZ"

LowerCase == "abcdefghijklmnopqrstuvwxyz"

UpperLetters == {SubSeq(UpperCase, i, i) : i \in 1..Len(UpperCase)}

\* the lower-case letter of each upper-case letter
LowerOf ==
  [c \in UpperLetters |->
     LET i == CHOOSE i \in 1..Len(UpperCase) : SubSeq(UpperCase, i, i) = c
     IN SubSeq(LowerCase, i, i)]

RECURSIVE ToLowerCase(_)

\* String.prototype.toLowerCase on a string of ASCII characters
ToLowerCase(s) ==
  IF s = "" THEN ""
  ELSE (IF Head(s) \in UpperLetters THEN LowerOf[Head(s)] ELSE Head(s))
       \o ToLowerCase(Tail(s))

\* s.includes(sub)
Includes(s, sub) ==
  \E i \in 1..(Len(s) - Len(sub) + 1) : SubSeq(s, i, i + Len(sub) - 1) = sub

\* s.includes('charset')
IncludesCharset(s) == Includes(s, "charset")

Digits == "0123456789"

IsDigit(c) == \E i \in 1..Len(Digits) : SubSeq(Digits, i, i) = c

DigitValue(c) == (CHOOSE i \in 1..Len(Digits) : SubSeq(Digits, i, i) = c) - 1

RECURSIVE DigitsBefore(_, _)

\* a < b for two strings of digits of the same length
DigitsBefore(a, b) ==
  IF a = "" THEN FALSE
  ELSE IF Head(a) = Head(b) THEN DigitsBefore(Tail(a), Tail(b))
  ELSE DigitValue(Head(a)) < DigitValue(Head(b))

\* a < b for two array indices written in decimal
IndexBefore(a, b) ==
  Len(a) < Len(b) \/ (Len(a) = Len(b) /\ DigitsBefore(a, b))

\* the key is an array index: the decimal form of an integer of
\* 0 .. 2^32 - 2; an object lists such keys first, in ascending order
IsArrayIndex(key) ==
  /\ key # ""
  /\ \A i \in 1..Len(key) : IsDigit(SubSeq(key, i, i))
  /\ Len(key) = 1 \/ Head(key) # "0"
  /\ ~IndexBefore("4294967294", key)

\* object[e.key] = e.value on the entries of an object: a key already
\* present keeps its position, a new array index goes among the array
\* indices in ascending order, any other new key goes last
SetProperty(entries, e) ==
  IF \E i \in 1..Len(entries) : entries[i].key = e.key
  THEN [i \in 1..Len(entries) |-> IF entries[i].key = e.key THEN e ELSE entries[i]]
  ELSE IF IsArrayIndex(e.key)
  THEN LET before == {i \in 1..Len(entries) :
                        IsArrayIndex(entries[i].key) /\ IndexBefore(entries[i].key, e.key)}
           n == Cardinality(before)
       IN SubSeq(entries, 1, n) \o <<e>> \o SubSeq(entries, n + 1, Len(entries))
  ELSE Append(entries, e)

RESOURCE_ATTRS == <<"src", "href", "data", "action">>

(***************************************************************************)
(* getNodeProps: the view of a node that predicates receive.               *)
(***************************************************************************)
\* getNodeProps taking the first child as content whenever it is a string
getNodeProps_FirstText(node) ==
  IF IsString(node)
  THEN [name |-> Null, attribs |-> Null, content |-> node]
  ELSE LET hasTextChild ==
             /\ HasChildren(node)
             /\ Len(node.children) >= 1
             /\ IsString(node.children[1])
       IN [name |-> Str(node.name),
           attribs |-> IF HasAttribs(node) THEN Obj(node.attribs) ELSE Undefined,
           content |-> IF hasTextChild THEN node.children[1] ELSE Null]

getNodeProps(node) ==
  IF IsString(node)
  THEN [name |-> Null, attribs |-> Null, content |-> node]
  ELSE LET hasOnlyTextChild ==
             /\ HasChildren(node)
             /\ Len(node.children) = 1
             /\ IsString(node.children[1])
       IN [name |-> Str(node.name),
           attribs |-> IF HasAttribs(node) THEN Obj(node.attribs) ELSE Undefined,
           content |-> IF hasOnlyTextChild THEN node.children[1] ELSE Null]

(***************************************************************************)
(* Predicates callers pass to hasNode and removeNodes, as data.            *)
(*   name     (n) => n.name === val                                        *)
(*   class    (n) => n.attribs?.class === val                              *)
(*   content  (n) => n.content === val                                     *)
(*   always   () => true                                                   *)
(*   title, charset, viewport: the predicates of setTitle, setCharset and  *)
(*   setViewport.                                                          *)
(*   emptyDiv (n) => n.name === 'div' &&                                   *)
(*                   (!n.children || n.children.length === 0)              *)
(*   rmOrDivText (n) => n.attribs?.class === 'rm' ||                       *)
(*                      (n.name === 'div' && n.content === val)            *)
(***************************************************************************)
isCharsetMeta(view) ==
  IF view.name # Str("meta")
  THEN FALSE
  ELSE LET attribs == view.attribs
           charset == AttrOf(attribs, "charset")
           httpEquiv == AttrOf(attribs, "http-equiv")
           content == AttrOf(attribs, "content")
           name == AttrOf(attribs, "name")
       IN \/ IsString(charset) /\ charset.value # ""
          \/ /\ IsString(httpEquiv)
             /\ ToLowerCase(httpEquiv.value) = "content-type"
             /\ IsString(content)
             /\ IncludesCharset(ToLowerCase(content.value))
          \/ IsString(name) /\ ToLowerCase(name.value) = "charset"

isViewportMeta(view) ==
  view.name = Str("meta") /\ AttrOf(view.attribs, "name") = Str("viewport")

Test(p, view) ==
  CASE p.kind = "name" -> view.name = Str(p.val)
    [] p.kind = "class" -> AttrOf(view.attribs, "class") = Str(p.val)
    [] p.kind = "content" -> view.content = Str(p.val)
    [] p.kind = "always" -> TRUE
    [] p.kind = "title" -> view.name = Str("title")
    [] p.kind = "charset" -> isCharsetMeta(view)
    [] p.kind = "viewport" -> isViewportMeta(view)
    [] p.kind = "emptyDiv" ->
         /\ view.name = Str("div")
         /\ \/ "children" \notin DOMAIN view
            \/ Len(view.children) = 0
    [] p.kind = "rmOrDivText" ->
         \/ AttrOf(view.attribs, "class") = Str("rm")
         \/ view.name = Str("div") /\ view.content = Str(p.val)

(***************************************************************************)
(* traverse: the sequence of the callback's arguments, in call order.      *)
(***************************************************************************)
RECURSIVE traverse(_)
RECURSIVE traverseEach(_)

traverse(node) ==
  IF Falsy(node) THEN <<>>
  ELSE IF IsArray(node) THEN traverseEach(node.items)
  ELSE <<node>> \o (IF HasChildren(node) THEN traverseEach(node.children) ELSE <<>>)

\* nodes.forEach(n => traverse(n, callback))
traverseEach(nodes) ==
  IF nodes = <<>> THEN <<>>
  ELSE traverse(Head(nodes)) \o traverseEach(Tail(nodes))

(***************************************************************************)
(* hasNode: [found, calls], calls being the views the predicate received   *)
(* in call order.                                                          *)
(***************************************************************************)
RECURSIVE hasNode(_, _)
RECURSIVE hasNodeSome(_, _)

hasNode(node, p) ==
  IF Falsy(node) THEN [found |-> FALSE, calls |-> <<>>]
  ELSE IF IsArray(node) THEN hasNodeSome(node.items, p)
  ELSE LET view == getNodeProps(node)
       IN IF Test(p, view)
          THEN [found |-> TRUE, calls |-> <<view>>]
          ELSE IF HasChildren(node)
               THEN LET r == hasNodeSome(node.children, p)
                    IN [found |-> r.found, calls |-> <<view>> \o r.calls]
               ELSE [found |-> FALSE, calls |-> <<view>>]

\* hasNodeSome going on after the first match
hasNodeSome_NoStop(nodes, p) ==
  IF nodes = <<>> THEN [found |-> FALSE, calls |-> <<>>]
  ELSE LET r == hasNode(Head(nodes), p)
           rest == hasNodeSome(Tail(nodes), p)
       IN [found |-> r.found \/ rest.found, calls |-> r.calls \o rest.calls]

\* nodes.some(n => hasNode(n, predicate))
hasNodeSome(nodes, p) ==
  IF nodes = <<>> THEN [found |-> FALSE, calls |-> <<>>]
  ELSE LET r == hasNode(Head(nodes), p)
       IN IF r.found THEN r
          ELSE LET rest == hasNodeSome(Tail(nodes), p)
               IN [found |-> rest.found, calls |-> r.calls \o rest.calls]

(***************************************************************************)
(* extractAllResources: the records pushed, in push order.                 *)
(***************************************************************************)
RECURSIVE resourcesOfNode(_, _)

\* resourcesOfNode without the test of the value
resourcesOfNode_AnyValue(node, i) ==
  IF i > Len(RESOURCE_ATTRS) THEN <<>>
  ELSE LET attr == RESOURCE_ATTRS[i]
           value == Get(node.attribs, attr)
       IN (IF IsString(value)
           THEN <<[name |-> node.name, attribute |-> attr, value |-> value.value]>>
           ELSE <<>>)
          \o resourcesOfNode(node, i + 1)

\* RESOURCE_ATTRS.forEach((attr) => ...) from index i on, for one node
resourcesOfNode(node, i) ==
  IF i > Len(RESOURCE_ATTRS) THEN <<>>
  ELSE LET attr == RESOURCE_ATTRS[i]
           value == Get(node.attribs, attr)
       IN (IF IsString(value) /\ value.value # ""
           THEN <<[name |-> node.name, attribute |-> attr, value |-> value.value]>>
           ELSE <<>>)
          \o resourcesOfNode(node, i + 1)

RECURSIVE resourcesOfNodes(_)

\* the traverse callback of extractAllResources applied to each visited node
resourcesOfNodes(nodes) ==
  IF nodes = <<>> THEN <<>>
  ELSE (IF HasAttribs(Head(nodes)) THEN resourcesOfNode(Head(nodes), 1) ELSE <<>>)
       \o resourcesOfNodes(Tail(nodes))

extractAllResources(node) == resourcesOfNodes(traverse(node))

(***************************************************************************)
(* removeNodes: [node, calls], node being the argument after the in-place  *)
(* edit and calls the views the predicate received in call order.          *)
(***************************************************************************)
\* node.children = kids, also when node had no children property
SetChildren(node, kids) ==
  [f \in (DOMAIN node) \cup {"children"} |->
     IF f = "children" THEN kids ELSE node[f]]

RECURSIVE filterChildren(_, _)

\* filterChildren taking out the first child the predicate accepts only
filterChildren_FirstHitOnly(children, p) ==
  IF children = <<>> THEN [kept |-> <<>>, calls |-> <<>>]
  ELSE LET view == getNodeProps(Head(children))
           rest == filterChildren(Tail(children), p)
       IN [kept |-> IF Test(p, view) THEN Tail(children) ELSE <<Head(children)>> \o rest.kept,
           calls |-> <<view>> \o rest.calls]

\* node.children.filter(child => !predicate(getNodeProps(child)))
filterChildren(children, p) ==
  IF children = <<>> THEN [kept |-> <<>>, calls |-> <<>>]
  ELSE LET view == getNodeProps(Head(children))
           rest == filterChildren(Tail(children), p)
       IN [kept |-> IF Test(p, view) THEN rest.kept ELSE <<Head(children)>> \o rest.kept,
           calls |-> <<view>> \o rest.calls]

RECURSIVE removeNodes(_, _)
RECURSIVE removeNodesEach(_, _)

\* removeNodes descending into every child, the removed ones included
removeNodes_DescendAll(node, p) ==
  IF Falsy(node) THEN [node |-> node, calls |-> <<>>]
  ELSE IF IsArray(node)
       THEN LET r == removeNodesEach(node.items, p)
            IN [node |-> Arr(r.nodes), calls |-> r.calls]
  ELSE IF HasChildren(node)
       THEN LET f == filterChildren(node.children, p)
                r == removeNodesEach(f.kept, p)
                all == removeNodesEach(node.children, p)
            IN [node |-> SetChildren(node, r.nodes), calls |-> f.calls \o all.calls]
  ELSE [node |-> node, calls |-> <<>>]

removeNodes(node, p) ==
  IF Falsy(node) THEN [node |-> node, calls |-> <<>>]
  ELSE IF IsArray(node)
       THEN LET r == removeNodesEach(node.items, p)
            IN [node |-> Arr(r.nodes), calls |-> r.calls]
  ELSE IF HasChildren(node)
       THEN LET f == filterChildren(node.children, p)
                r == removeNodesEach(f.kept, p)
            IN [node |-> SetChildren(node, r.nodes), calls |-> f.calls \o r.calls]
  ELSE [node |-> node, calls |-> <<>>]

\* nodes.forEach(n => removeNodes(n, predicate))
removeNodesEach(nodes, p) ==
  IF nodes = <<>> THEN [nodes |-> <<>>, calls |-> <<>>]
  ELSE LET r == removeNodes(Head(nodes), p)
           rest == removeNodesEach(Tail(nodes), p)
       IN [nodes |-> <<r.node>> \o rest.nodes, calls |-> r.calls \o rest.calls]

(***************************************************************************)
(* updateTitle: the argument after the in-place edit.                      *)
(***************************************************************************)
RECURSIVE updateTitle(_, _)
RECURSIVE updateTitleEach(_, _)

updateTitle(node, newTitle) ==
  IF Falsy(node) THEN node
  ELSE IF IsArray(node) THEN Arr(updateTitleEach(node.items, newTitle))
  ELSE IF NameOf(node) = Str("title") THEN SetChildren(node, <<Str(newTitle)>>)
  ELSE IF HasChildren(node)
       THEN SetChildren(node, updateTitleEach(node.children, newTitle))
  ELSE node

\* updateTitleEach stopping after the first node it changed
updateTitleEach_FirstOnly(nodes, newTitle) ==
  IF nodes = <<>> THEN <<>>
  ELSE LET u == updateTitle(Head(nodes), newTitle)
       IN IF u # Head(nodes) THEN <<u>> \o Tail(nodes)
          ELSE <<u>> \o updateTitleEach(Tail(nodes), newTitle)

updateTitleEach(nodes, newTitle) ==
  IF nodes = <<>> THEN <<>>
  ELSE <<updateTitle(Head(nodes), newTitle)>> \o updateTitleEach(Tail(nodes), newTitle)

(***************************************************************************)
(* ensureHeadNode: [root, at], root being the argument after the in-place  *)
(* edit and at the index (from 1) of the returned head in root.children,   *)
(* or 0 when the returned head is not part of root (root has no children   *)
(* to splice into).                                                        *)
(***************************************************************************)
\* children.findIndex(n => n.name === name), from 1; 0 when there is none
FindIndexByName(children, name) ==
  IF \E i \in 1..Len(children) : NameOf(children[i]) = Str(name)
  THEN CHOOSE i \in 1..Len(children) :
         /\ NameOf(children[i]) = Str(name)
         /\ \A j \in 1..(i - 1) : NameOf(children[j]) # Str(name)
  ELSE 0

\* children.splice(i - 1, 0, node)
InsertAt(children, i, node) ==
  SubSeq(children, 1, i - 1) \o <<node>> \o SubSeq(children, i, Len(children))

\* ensureHeadNode putting the new head first, whether or not there is a body
ensureHeadNode_Front(r) ==
  IF ~HasChildren(r) THEN [root |-> r, at |-> 0]
  ELSE LET headIndex == FindIndexByName(r.children, "head")
       IN IF headIndex > 0 THEN [root |-> r, at |-> headIndex]
          ELSE [root |-> SetChildren(r, InsertAt(r.children, 1, El("head", <<>>, <<>>))),
                at |-> 1]

ensureHeadNode(r) ==
  IF ~HasChildren(r) THEN [root |-> r, at |-> 0]
  ELSE LET headIndex == FindIndexByName(r.children, "head")
       IN IF headIndex > 0 THEN [root |-> r, at |-> headIndex]
          ELSE LET headNode == El("head", <<>>, <<>>)
                   bodyIndex == FindIndexByName(r.children, "body")
                   insertIndex == IF bodyIndex > 0 THEN bodyIndex ELSE 1
               IN [root |-> SetChildren(r, InsertAt(r.children, insertIndex, headNode)),
                   at |-> insertIndex]

\* headNode.children.push(node) / headNode.children.unshift(node) after
\* ensureHeadNode(r): [root, threw]; threw when headNode.children is undefined
editHead(r, node, front) ==
  LET e == ensureHeadNode(r)
  IN IF e.at = 0 THEN [root |-> e.root, threw |-> FALSE]
     ELSE LET headNode == e.root.children[e.at]
          IN IF ~HasChildren(headNode) THEN [root |-> e.root, threw |-> TRUE]
             ELSE LET kids == IF front THEN <<node>> \o headNode.children
                                       ELSE Append(headNode.children, node)
                  IN [root |-> [e.root EXCEPT !.children[e.at] = SetChildren(headNode, kids)],
                      threw |-> FALSE]

RECURSIVE Spread(_, _)

\* { ...entries, ...more }: the entries of more set one by one, in order
Spread(entries, more) ==
  IF more = <<>> THEN entries
  ELSE Spread(SetProperty(entries, Head(more)), Tail(more))

\* insertInlineScript building the script node without an attribs mapping
insertInlineScript_NoAttribs(r, scriptText) ==
  editHead(r, [type |-> "object", name |-> "script",
               children |-> <<Str(scriptText)>>], FALSE)

insertInlineScript(r, scriptText) ==
  editHead(r, El("script", <<>>, <<Str(scriptText)>>), FALSE)

\* insertLink skipping a link head already holds
insertLink_Dedup(r, href, rel, additionalAttribs) ==
  LET linkNode == El("link", Spread(<<KV("rel", rel), KV("href", href)>>, additionalAttribs),
                     <<>>)
      e == ensureHeadNode(r)
  IN IF e.at > 0 /\ \E i \in 1..Len(e.root.children[e.at].children) :
                      e.root.children[e.at].children[i] = linkNode
     THEN [root |-> e.root, threw |-> FALSE]
     ELSE editHead(r, linkNode, FALSE)

insertLink(r, href, rel, additionalAttribs) ==
  editHead(r, El("link", Spread(<<KV("rel", rel), KV("href", href)>>, additionalAttribs), <<>>),
           FALSE)

\* [root, threw, calls]
setTitle(r, content) ==
  LET h == hasNode(r, [kind |-> "title"])
  IN IF h.found
     THEN [root |-> updateTitle(r, content), threw |-> FALSE, calls |-> h.calls]
     ELSE LET e == editHead(r, El("title", <<>>, <<Str(content)>>), TRUE)
          IN [root |-> e.root, threw |-> e.threw, calls |-> h.calls]

setCharset(r, charset) ==
  LET h == hasNode(r, [kind |-> "charset"])
  IN IF h.found
     THEN [root |-> r, threw |-> FALSE, calls |-> h.calls]
     ELSE LET e == editHead(r, El("meta", <<KV("charset", charset)>>, <<>>), TRUE)
          IN [root |-> e.root, threw |-> e.threw, calls |-> h.calls]

setViewport(r, content) ==
  LET h == hasNode(r, [kind |-> "viewport"])
  IN IF h.found
     THEN [root |-> r, threw |-> FALSE, calls |-> h.calls]
     ELSE LET e == editHead(r, El("meta", <<KV("name", "viewport"), KV("content", content)>>,
                                  <<>>), FALSE)
          IN [root |-> e.root, threw |-> e.threw, calls |-> h.calls]

(***************************************************************************)
(* The codec.  Text is a TLA+ string, read character by character.  A raw  *)
(* parse node is a record with the fields htmlparser2 gives it:            *)
(*   [type |-> "root", children]            the document                   *)
(*   [type |-> "tag" | "script" | "style", name, attribs, children]        *)
(*   [type |-> "text", data], [type |-> "comment", data]                   *)
(*   [type |-> "directive", name, data], [type |-> "cdata", children]      *)
(***************************************************************************)
SELF_CLOSING_TAGS ==
  <<"meta", "base", "link", "img", "br", "hr", "input", "area", "source">>

\* the white space String.prototype.trim strips from a string of ASCII
\* characters: space, tab, line feed, carriage return, form feed and
\* vertical tab
WhiteSpace == {" ", "\t", "\n", "\r", "\f", ""}

RECURSIVE TrimStart(_)

TrimStart(s) ==
  IF s # "" /\ Head(s) \in WhiteSpace THEN TrimStart(Tail(s)) ELSE s

RECURSIVE TrimEnd(_)

TrimEnd(s) ==
  IF s # "" /\ SubSeq(s, Len(s), Len(s)) \in WhiteSpace
  THEN TrimEnd(SubSeq(s, 1, Len(s) - 1))
  ELSE s

\* String.prototype.trim
Trim(s) == TrimEnd(TrimStart(s))

RECURSIVE nodeToJson(_)
RECURSIVE nodeToJsonEach(_)

\* nodeToJson returning the trimmed text
nodeToJson_Trimmed(node) ==
  IF node.type = "text"
  THEN (IF Trim(node.data) # "" THEN Str(Trim(node.data)) ELSE Null)
  ELSE IF node.type \notin {"tag", "script", "style"} THEN Null
  ELSE El(node.name,
          IF "attribs" \in DOMAIN node THEN node.attribs ELSE <<>>,
          IF "children" \in DOMAIN node THEN nodeToJsonEach(node.children) ELSE <<>>)

nodeToJson(node) ==
  IF node.type = "text"
  THEN (IF Trim(node.data) # "" THEN Str(node.data) ELSE Null)
  ELSE IF node.type \notin {"tag", "script", "style"} THEN Null
  ELSE El(node.name,
          IF "attribs" \in DOMAIN node THEN node.attribs ELSE <<>>,
          IF "children" \in DOMAIN node THEN nodeToJsonEach(node.children) ELSE <<>>)

\* children.map(nodeToJson).filter(Boolean)
nodeToJsonEach(nodes) ==
  IF nodes = <<>> THEN <<>>
  ELSE LET j == nodeToJson(Head(nodes))
       IN (IF Falsy(j) THEN <<>> ELSE <<j>>) \o nodeToJsonEach(Tail(nodes))

RECURSIVE attrStrOf(_)

\* Object.entries(attribs).map(([key, value]) => `${key}="${value}"`).join(' ')
attrStrOf(entries) ==
  IF entries = <<>> THEN ""
  ELSE Head(entries).key \o "=\"" \o Head(entries).value \o "\""
       \o (IF Tail(entries) = <<>> THEN "" ELSE " " \o attrStrOf(Tail(entries)))

RECURSIVE jsonToHtml(_)
RECURSIVE jsonToHtmlEach(_)

\* jsonToHtml self-closing every element of SELF_CLOSING_TAGS, childless or not
jsonToHtml_AlwaysSelfClosing(node) ==
  IF IsString(node) THEN node.value
  ELSE LET name == node.name
           attribs == IF HasAttribs(node) THEN node.attribs ELSE <<>>
           children == IF HasChildren(node) THEN node.children ELSE <<>>
           attrStr == attrStrOf(attribs)
           openTag == IF attrStr # "" THEN "<" \o name \o " " \o attrStr \o ">"
                      ELSE "<" \o name \o ">"
       IN IF \E i \in 1..Len(SELF_CLOSING_TAGS) : SELF_CLOSING_TAGS[i] = name
          THEN (IF attrStr # "" THEN "<" \o name \o " " \o attrStr \o " />"
                ELSE "<" \o name \o " />")
          ELSE openTag \o jsonToHtmlEach(children) \o "</" \o name \o ">"

jsonToHtml(node) ==
  IF IsString(node) THEN node.value
  ELSE LET name == node.name
           attribs == IF HasAttribs(node) THEN node.attribs ELSE <<>>
           children == IF HasChildren(node) THEN node.children ELSE <<>>
           attrStr == attrStrOf(attribs)
           openTag == IF attrStr # "" THEN "<" \o name \o " " \o attrStr \o ">"
                      ELSE "<" \o name \o ">"
       IN IF /\ \E i \in 1..Len(SELF_CLOSING_TAGS) : SELF_CLOSING_TAGS[i] = name
             /\ Len(children) = 0
          THEN (IF attrStr # "" THEN "<" \o name \o " " \o attrStr \o " />"
                ELSE "<" \o name \o " />")
          ELSE openTag \o jsonToHtmlEach(children) \o "</" \o name \o ">"

\* children.map(jsonToHtml).join('')
jsonToHtmlEach(nodes) ==
  IF nodes = <<>> THEN ""
  ELSE jsonToHtml(Head(nodes)) \o jsonToHtmlEach(Tail(nodes))

\* createHtmlDocument(title, { lang, charset, viewport }), the defaults
\* filled in by the caller of this operator; lang is a string or Undefined
createHtmlDocument(title, lang, charset, viewport) ==
  El("html",
     IF IsString(lang) /\ lang.value # "" THEN <<KV("lang", lang.value)>> ELSE <<>>,
     <<El("head", <<>>,
          <<El("meta", <<KV("charset", charset)>>, <<>>),
            El("meta", <<KV("name", "viewport"), KV("content", viewport)>>, <<>>),
            El("title", <<>>, <<Str(title)>>)>>),
       El("body", <<>>, <<>>)>>)

(***************************************************************************)
(* parseDocument (htmlparser2), for the markup jsonToHtml writes: text,    *)
(* <name key="value" ...>, <name ... />, </name>.  As htmlparser2 does in  *)
(* HTML mode: names are lower-cased, a void element is closed as soon as   *)
(* it is opened, the content of title, script and style is text up to its  *)
(* closing tag, a closing tag closes the nearest open element of that name *)
(* with everything opened inside it and is ignored when there is none, a   *)
(* repeated attribute keeps its first value, and the end of the text       *)
(* closes what is open.  The texts of the model hold no comment,           *)
(* directive, character reference or '>' inside an attribute value.        *)
(***************************************************************************)
VoidElements ==
  {"area", "base", "basefont", "br", "col", "command", "embed", "frame", "hr",
   "img", "input", "isindex", "keygen", "link", "meta", "param", "source",
   "track", "wbr"}

RawTextElements == {"script", "style", "title"}

Letters ==
  {"a", "b", "c", "d", "e", "f", "g", "h", "i", "j", "k", "l", "m", "n", "o",
   "p", "q", "r", "s", "t", "u", "v", "w", "x", "y", "z",
   "A", "B", "C", "D", "E", "F", "G", "H", "I", "J", "K", "L", "M", "N", "O",
   "P", "Q", "R", "S", "T", "U", "V", "W", "X", "Y", "Z"}

CharAt(s, i) == SubSeq(s, i, i)

\* s.indexOf(sub) counted from 1; 0 when sub does not occur
IndexOf(s, sub) ==
  LET hits == {i \in 1..(Len(s) - Len(sub) + 1) : SubSeq(s, i, i + Len(sub) - 1) = sub}
  IN IF hits = {} THEN 0 ELSE CHOOSE i \in hits : \A j \in hits : i <= j

\* index of the first "</name" in s, in any letter case, for closing the
\* lower-case text "</name"; 0 when there is none
IndexOfClosing(s, closing) ==
  LET hits == {i \in 1..(Len(s) - Len(closing) + 1) :
                 /\ SubSeq(s, i, i + 1) = "</"
                 /\ ToLowerCase(SubSeq(s, i, i + Len(closing) - 1)) = closing}
  IN IF hits = {} THEN 0 ELSE CHOOSE i \in hits : \A j \in hits : i <= j

\* index of the first character of s that is in set; Len(s) + 1 when none is
FirstIn(s, set) ==
  LET hits == {i \in 1..Len(s) : CharAt(s, i) \in set}
  IN IF hits = {} THEN Len(s) + 1 ELSE CHOOSE i \in hits : \A j \in hits : i <= j

RawTag(name, attribs, children) ==
  [type |-> IF name \in {"script", "style"} THEN name ELSE "tag",
   name |-> name, attribs |-> attribs, children |-> children]

RawText(data) == [type |-> "text", data |-> data]

RawDocument(children) == [type |-> "root", children |-> children]

\* the white space of the tokenizer
TagSpace == {" ", "\t", "\n", "\f", "\r"}

RECURSIVE SkipTagSpace(_)

SkipTagSpace(s) ==
  IF s # "" /\ Head(s) \in TagSpace THEN SkipTagSpace(Tail(s)) ELSE s

RECURSIVE parseAttribs(_, _)

\* the attributes written in s, the text of a tag after its name
parseAttribs(s, acc) ==
  LET t == SkipTagSpace(s)
  IN IF t = "" THEN acc
     ELSE IF Head(t) = "/" THEN parseAttribs(Tail(t), acc)
     ELSE LET keyEnd == FirstIn(t, TagSpace \cup {"=", "/"})
              key == ToLowerCase(SubSeq(t, 1, keyEnd - 1))
              afterKey == SkipTagSpace(SubSeq(t, keyEnd, Len(t)))
              quoted == Len(afterKey) >= 2 /\ SubSeq(afterKey, 1, 2) = "=\""
              body == SubSeq(afterKey, 3, Len(afterKey))
              valueEnd == FirstIn(body, {"\""})
              value == IF quoted THEN SubSeq(body, 1, valueEnd - 1) ELSE ""
              rest == IF quoted THEN SubSeq(body, valueEnd + 1, Len(body))
                      ELSE IF keyEnd = 1 THEN Tail(t)
                      ELSE afterKey
              taken == \E i \in 1..Len(acc) : acc[i].key = key
          IN parseAttribs(rest, IF taken \/ key = "" THEN acc ELSE SetProperty(acc, KV(key, value)))

\* the open elements, the document first; a node goes under the last one
addChild(stack, node) ==
  [stack EXCEPT ![Len(stack)].children = Append(@, node)]

RECURSIVE closeTo(_, _)

\* close the open elements from the last one down to index i
closeTo(stack, i) ==
  IF Len(stack) < i THEN stack
  ELSE closeTo(addChild(SubSeq(stack, 1, Len(stack) - 1), stack[Len(stack)]), i)

onOpenTag(stack, name, attribs) ==
  IF name \in VoidElements THEN addChild(stack, RawTag(name, attribs, <<>>))
  ELSE Append(stack, RawTag(name, attribs, <<>>))

\* </br> and a </p> that closes nothing stand for an empty element
onCloseTag(stack, name) ==
  LET hits == {i \in 2..Len(stack) : stack[i].name = name}
  IN IF name \in VoidElements
     THEN (IF name = "br" THEN addChild(stack, RawTag("br", <<>>, <<>>)) ELSE stack)
     ELSE IF hits = {}
     THEN (IF name = "p" THEN addChild(stack, RawTag("p", <<>>, <<>>)) ELSE stack)
     ELSE closeTo(stack, CHOOSE i \in hits : \A j \in hits : j <= i)

RECURSIVE parseFrom(_, _)

parseFrom(s, stack) ==
  LET top == stack[Len(stack)]
      closing == IF Len(stack) > 1 THEN "</" \o top.name ELSE "</"
      inRawText == Len(stack) > 1 /\ top.name \in RawTextElements
      gt == IndexOf(s, ">")
  IN IF s = "" THEN closeTo(stack, 2)[1]
     ELSE IF inRawText /\ IndexOfClosing(s, closing) # 1
          THEN LET end == IndexOfClosing(s, closing)
                   stop == IF end = 0 THEN Len(s) + 1 ELSE end
               IN parseFrom(SubSeq(s, stop, Len(s)),
                            addChild(stack, RawText(SubSeq(s, 1, stop - 1))))
     ELSE IF Len(s) >= 2 /\ SubSeq(s, 1, 2) = "</" /\ gt > 0
          THEN parseFrom(SubSeq(s, gt + 1, Len(s)),
                         LET body == SkipTagSpace(SubSeq(s, 3, gt - 1))
                             name == SubSeq(body, 1, FirstIn(body, TagSpace) - 1)
                         IN onCloseTag(stack, ToLowerCase(name)))
     ELSE IF Len(s) >= 2 /\ Head(s) = "<" /\ CharAt(s, 2) \in Letters /\ gt > 0
          THEN LET body == SubSeq(s, 2, gt - 1)
                   nameEnd == FirstIn(body, TagSpace \cup {"/"})
                   name == ToLowerCase(SubSeq(body, 1, nameEnd - 1))
                   attribs == parseAttribs(SubSeq(body, nameEnd, Len(body)), <<>>)
               IN parseFrom(SubSeq(s, gt + 1, Len(s)), onOpenTag(stack, name, attribs))
     ELSE LET lt == IndexOf(Tail(s), "<")
              stop == IF lt = 0 THEN Len(s) + 1 ELSE lt + 1
              text == SubSeq(s, 1, stop - 1)
              last == IF top.children = <<>> THEN RawDocument(<<>>)
                      ELSE top.children[Len(top.children)]
          IN parseFrom(SubSeq(s, stop, Len(s)),
                       IF last.type = "text"
                       THEN [stack EXCEPT ![Len(stack)].children[Len(top.children)].data
                                            = @ \o text]
                       ELSE addChild(stack, RawText(text)))

parseDocument(text) == parseFrom(text, <<RawDocument(<<>>)>>)

\* dom.children.find(n => n.name === 'html'), from 1; 0 when there is none
findHtmlNode(d) ==
  LET hits == {i \in 1..Len(d.children) :
                 "name" \in DOMAIN d.children[i] /\ d.children[i].name = "html"}
  IN IF hits = {} THEN 0 ELSE CHOOSE i \in hits : \A j \in hits : i <= j

\* htmlToJson after parseDocument: the canonical tree or null
htmlNodeToJson(d) ==
  IF findHtmlNode(d) = 0 THEN Null ELSE nodeToJson(d.children[findHtmlNode(d)])

htmlToJson(text) == htmlNodeToJson(parseDocument(text))

(***************************************************************************)
(* Inputs.                                                                 *)
(***************************************************************************)
SeqsUpTo(S, n) == UNION {[1..k -> S] : k \in 0..n}

\* leaves of the trees given to traverse, hasNode, removeNodes and
\* extractAllResources: text (also the empty text createHtmlDocument() puts
\* under title), childless elements, an element with neither attribs nor
\* children
Leaves ==
  {Str(""), Str("x"),
   El("img", <<KV("href", "/h"), KV("src", "/s")>>, <<>>),
   El("p", <<KV("class", "rm")>>, <<>>),
   El("a", <<KV("action", ""), KV("data", "/d")>>, <<>>),
   [type |-> "object", name |-> "span"]}

Inner ==
  {El(n, a, k) : n \in {"div", "title"},
                 a \in {<<>>, <<KV("class", "rm")>>},
                 k \in SeqsUpTo(Leaves, MaxKids)}

Outer ==
  {El("form", <<KV("action", "/f")>>, <<m>> \o k) :
     m \in Inner, k \in SeqsUpTo(Leaves \cup {El("div", <<>>, <<Str("x")>>)}, 1)}

WalkInputs ==
  {Null, Arr(<<>>)} \cup Inner \cup Outer
    \cup {Arr(<<a, b>>) : a \in Leaves, b \in {El("div", <<>>, <<c>>) : c \in Leaves}}

WalkPredicates ==
  {[kind |-> "name", val |-> "title"],
   [kind |-> "class", val |-> "rm"],
   [kind |-> "content", val |-> "x"],
   [kind |-> "content", val |-> ""],
   [kind |-> "always", val |-> ""],
   [kind |-> "emptyDiv", val |-> ""],
   [kind |-> "rmOrDivText", val |-> "x"]}

(***************************************************************************)
(* Calls of the read-only and pruning operations on any input.             *)
(***************************************************************************)
InitWalk ==
  /\ root \in WalkInputs
  /\ pre = root
  /\ op = "init"
  /\ arg = [kind |-> "none", val |-> ""]
  /\ visited = <<>>
  /\ calls = <<>>
  /\ result = FALSE
  /\ resources = <<>>
  /\ threw = FALSE
  /\ steps = 0
  /\ html = ""
  /\ dom = Null

Traverse ==
  /\ op' = "traverse"
  /\ pre' = root
  /\ arg' = [kind |-> "none", val |-> ""]
  /\ visited' = traverse(root)
  /\ calls' = <<>>
  /\ result' = FALSE
  /\ resources' = <<>>
  /\ UNCHANGED <<root, threw, steps, html, dom>>

HasNode ==
  \E p \in WalkPredicates :
    LET r == hasNode(root, p)
    IN /\ op' = "hasNode"
       /\ pre' = root
       /\ arg' = p
       /\ visited' = <<>>
       /\ calls' = r.calls
       /\ result' = r.found
       /\ resources' = <<>>
       /\ UNCHANGED <<root, threw, steps, html, dom>>

RemoveNodes ==
  \E p \in WalkPredicates :
    LET r == removeNodes(root, p)
    IN /\ op' = "removeNodes"
       /\ pre' = root
       /\ arg' = p
       /\ root' = r.node
       /\ visited' = <<>>
       /\ calls' = r.calls
       /\ result' = FALSE
       /\ resources' = <<>>
       /\ threw' = FALSE
       /\ UNCHANGED <<steps, html, dom>>

ExtractAllResources ==
  /\ op' = "extractAllResources"
  /\ pre' = root
  /\ arg' = [kind |-> "none", val |-> ""]
  /\ visited' = <<>>
  /\ calls' = <<>>
  /\ result' = FALSE
  /\ resources' = extractAllResources(root)
  /\ UNCHANGED <<root, threw, steps, html, dom>>

NextWalk == Traverse \/ HasNode \/ RemoveNodes \/ ExtractAllResources

SpecWalk == InitWalk /\ [][NextWalk]_vars

(***************************************************************************)
(* Documents given to the mutation operations: canonical trees with or     *)
(* without a head, a body, a title (in head, nested in body, as the root)  *)
(* and meta nodes that do or do not signal a charset or a viewport.        *)
(***************************************************************************)
MaxHeadKids == 1

HeadPool ==
  {El("meta", <<KV("charset", "utf-8")>>, <<>>),
   El("meta", <<KV("charset", "")>>, <<>>),
   El("meta", <<KV("http-equiv", "CONTENT-Type"),
                KV("content", "text/html;CHARSET=gb2312")>>, <<>>),
   El("meta", <<KV("http-equiv", "content-type"), KV("content", "text/html")>>, <<>>),
   El("meta", <<KV("name", "CHARSET")>>, <<>>),
   El("meta", <<KV("name", "viewport"), KV("content", "width=320")>>, <<>>),
   El("meta", <<KV("name", "Viewport"), KV("content", "width=320")>>, <<>>),
   El("title", <<>>, <<Str("Old")>>),
   El("title", <<>>, <<>>),
   El("link", <<KV("rel", "icon"), KV("href", "/i.png")>>, <<>>)}

Heads == {El("head", <<>>, k) : k \in SeqsUpTo(HeadPool, MaxHeadKids)}

Bodies ==
  {El("body", <<>>, <<>>),
   El("body", <<>>,
      <<El("div", <<>>,
           <<El("title", <<>>, <<El("b", <<>>, <<Str("Deep")>>), Str("er")>>)>>),
        El("title", <<>>, <<Str("Second")>>)>>),
   El("body", <<>>, <<Str("x"), El("meta", <<KV("charset", "gb2312")>>, <<>>)>>)}

Documents ==
  {El("html", <<KV("lang", "en")>>, k) :
     k \in {<<h, b>> : h \in Heads, b \in Bodies}
           \cup {<<h>> : h \in Heads}
           \cup {<<b>> : b \in Bodies}
           \cup {<<Str("x"), b>> : b \in Bodies}
           \cup {<<El("body", <<>>, <<>>), h>> : h \in Heads}
           \cup {<<>>,
                 <<El("head", <<>>, <<>>), El("head", <<>>, <<Str("x")>>)>>}}
    \cup {El("title", <<>>, <<Str("Old"), El("b", <<>>, <<>>)>>)}

Titles == {"New"}

Charsets == {"utf-8", ""}

Viewports == {"width=device-width, initial-scale=1.0"}

Hrefs == {"/a.css"}

Rels == {"stylesheet"}

AdditionalAttribs ==
  {<<>>,
   <<KV("media", "screen"), KV("rel", "preload")>>,
   <<KV("10", "x"), KV("9", "y")>>}

ScriptTexts == {"x()"}

Init ==
  /\ root \in Documents
  /\ pre = root
  /\ op = "init"
  /\ arg = [kind |-> "none", val |-> ""]
  /\ visited = <<>>
  /\ calls = <<>>
  /\ result = FALSE
  /\ resources = <<>>
  /\ threw = FALSE
  /\ steps = 0
  /\ html = ""
  /\ dom = Null

SetTitle ==
  \E content \in Titles :
    LET r == setTitle(root, content)
    IN /\ steps < MaxOps
       /\ steps' = steps + 1
       /\ op' = "setTitle"
       /\ arg' = [content |-> content]
       /\ pre' = root
       /\ root' = r.root
       /\ threw' = r.threw
       /\ calls' = r.calls
       /\ UNCHANGED <<visited, result, resources, html, dom>>

SetCharset ==
  \E charset \in Charsets :
    LET r == setCharset(root, charset)
    IN /\ steps < MaxOps
       /\ steps' = steps + 1
       /\ op' = "setCharset"
       /\ arg' = [charset |-> charset]
       /\ pre' = root
       /\ root' = r.root
       /\ threw' = r.threw
       /\ calls' = r.calls
       /\ UNCHANGED <<visited, result, resources, html, dom>>

SetViewport ==
  \E content \in Viewports :
    LET r == setViewport(root, content)
    IN /\ steps < MaxOps
       /\ steps' = steps + 1
       /\ op' = "setViewport"
       /\ arg' = [content |-> content]
       /\ pre' = root
       /\ root' = r.root
       /\ threw' = r.threw
       /\ calls' = r.calls
       /\ UNCHANGED <<visited, result, resources, html, dom>>

InsertLink ==
  \E href \in Hrefs, rel \in Rels, additionalAttribs \in AdditionalAttribs :
    LET r == insertLink(root, href, rel, additionalAttribs)
    IN /\ steps < MaxOps
       /\ steps' = steps + 1
       /\ op' = "insertLink"
       /\ arg' = [href |-> href, rel |-> rel, additionalAttribs |-> additionalAttribs]
       /\ pre' = root
       /\ root' = r.root
       /\ threw' = r.threw
       /\ calls' = <<>>
       /\ UNCHANGED <<visited, result, resources, html, dom>>

InsertInlineScript ==
  \E scriptText \in ScriptTexts :
    LET r == insertInlineScript(root, scriptText)
    IN /\ steps < MaxOps
       /\ steps' = steps + 1
       /\ op' = "insertInlineScript"
       /\ arg' = [scriptText |-> scriptText]
       /\ pre' = root
       /\ root' = r.root
       /\ threw' = r.threw
       /\ calls' = <<>>
       /\ UNCHANGED <<visited, result, resources, html, dom>>

Next == SetTitle \/ SetCharset \/ SetViewport \/ InsertLink \/ InsertInlineScript

Spec == Init /\ [][Next]_vars

(***************************************************************************)
(* The mutation operations and removeNodes called in any order, on trees   *)
(* a caller built by hand, some of whose nodes have no children or no      *)
(* attribs field, and on trees that come from htmlToJson or                *)
(* createHtmlDocument.                                                     *)
(***************************************************************************)
LooseDocuments ==
  {[type |-> "object", name |-> "html", attribs |-> <<>>],
   [type |-> "object", name |-> "html"],
   El("html", <<>>, <<[type |-> "object", name |-> "head", attribs |-> <<>>],
                      El("body", <<>>, <<>>)>>),
   El("html", <<>>, <<[type |-> "object", name |-> "head"],
                      El("body", <<>>, <<El("title", <<>>, <<Str("Old")>>),
                                         El("meta", <<KV("charset", "utf-8")>>, <<>>),
                                         El("div", <<KV("class", "rm")>>, <<>>)>>)>>),
   El("html", <<>>, <<>>),
   El("html", <<>>, <<El("body", <<>>, <<El("div", <<>>, <<Str("x")>>)>>)>>),
   El("html", <<>>, <<El("head", <<>>, <<El("title", <<>>, <<>>)>>)>>)}

InitLoose ==
  /\ root \in LooseDocuments
  /\ pre = root
  /\ op = "init"
  /\ arg = [kind |-> "none", val |-> ""]
  /\ visited = <<>>
  /\ calls = <<>>
  /\ result = FALSE
  /\ resources = <<>>
  /\ threw = FALSE
  /\ steps = 0
  /\ html = ""
  /\ dom = Null

NextEdit ==
  \/ SetTitle
  \/ SetCharset
  \/ SetViewport
  \/ InsertLink
  \/ InsertInlineScript
  \/ RemoveNodes

SpecLoose == InitLoose /\ [][NextEdit]_vars

(***************************************************************************)
(* Calls of the codec: createHtmlDocument, jsonToHtml and htmlToJson.      *)
(* htmlToJson called on the text jsonToHtml just wrote parses that text;   *)
(* called on a text of the caller's it works on the caller's document,     *)
(* given by the raw tree the parser returns for it (dom).                  *)
(***************************************************************************)
CodecLeaves ==
  {Str("x"), Str(" "),
   El("br", <<>>, <<>>),
   El("img", <<KV("src", "/s"), KV("alt", "a b")>>, <<>>),
   [type |-> "object", name |-> "hr"],
   El("p", <<KV("class", "a")>>, <<>>)}

CodecInner ==
  {El(n, a, k) : n \in {"div", "link"},
                 a \in {<<>>, <<KV("id", "i"), KV("class", "c")>>},
                 k \in SeqsUpTo(CodecLeaves, MaxKids)}

HtmlInputs ==
  CodecLeaves \cup CodecInner \cup {El("html", <<>>, <<m>>) : m \in CodecInner}

RawLeaves ==
  {RawText("  "), RawText(" a "), RawText(" \f\n"),
   [type |-> "comment", data |-> " c "],
   [type |-> "cdata", children |-> <<RawText("d")>>],
   RawTag("script", <<KV("src", "/s")>>, <<RawText("s()")>>)}

RawHtmlNodes ==
  {RawTag("html", <<KV("lang", "en")>>, <<RawTag("body", <<>>, k)>> \o t) :
     k \in SeqsUpTo(RawLeaves, MaxKids), t \in {<<>>, <<RawText("\n")>>}}

RawDoms ==
  {RawDocument(<<h>>) : h \in RawHtmlNodes}
    \cup {RawDocument(<<[type |-> "directive", name |-> "!doctype",
                         data |-> "!DOCTYPE html"],
                        RawText("\n"), h>>) : h \in RawHtmlNodes}
    \cup {RawDocument(<<>>),
          RawDocument(<<RawTag("div", <<>>, <<RawText("test")>>)>>),
          RawDocument(<<[type |-> "tag", name |-> "html"],
                        RawTag("html", <<>>, <<RawText("second")>>)>>)}

DocTitles == {"Round Trip Test", ""}

DocLangs == {Undefined, Str("en"), Str("en\" dir=\"rtl")}

DocCharsets == {"utf-8"}

DocViewports == {"width=device-width, initial-scale=1.0", "width=320"}

InitCodec ==
  /\ \/ root \in HtmlInputs /\ dom = Null
     \/ root = Null /\ dom \in RawDoms
  /\ pre = Null
  /\ op = "init"
  /\ arg = [kind |-> "none", val |-> ""]
  /\ visited = <<>>
  /\ calls = <<>>
  /\ result = FALSE
  /\ resources = <<>>
  /\ threw = FALSE
  /\ steps = 0
  /\ html = ""

CreateHtmlDocument ==
  \E title \in DocTitles, lang \in DocLangs,
     charset \in DocCharsets, viewport \in DocViewports :
    /\ op' = "createHtmlDocument"
    /\ arg' = [title |-> title, lang |-> lang, charset |-> charset, viewport |-> viewport]
    /\ root' = createHtmlDocument(title, lang, charset, viewport)
    /\ pre' = Null
    /\ html' = ""
    /\ UNCHANGED <<visited, calls, result, resources, threw, steps, dom>>

JsonToHtml ==
  /\ root # Null
  /\ op' = "jsonToHtml"
  /\ arg' = [kind |-> "none", val |-> ""]
  /\ pre' = root
  /\ html' = jsonToHtml(root)
  /\ UNCHANGED <<root, visited, calls, result, resources, threw, steps, dom>>

HtmlToJson ==
  /\ op = "jsonToHtml" \/ dom # Null
  /\ LET d == IF op = "jsonToHtml" THEN parseDocument(html) ELSE dom
     IN /\ dom' = d
        /\ root' = htmlNodeToJson(d)
  /\ op' = "htmlToJson"
  /\ arg' = [roundTrip |-> (op = "jsonToHtml")]
  /\ UNCHANGED <<pre, visited, calls, result, resources, threw, steps, html>>

NextCodec == CreateHtmlDocument \/ JsonToHtml \/ HtmlToJson

SpecCodec == InitCodec /\ [][NextCodec]_vars

\* the trees htmlToJson and createHtmlDocument return
ProducedTrees ==
  ({htmlNodeToJson(d) : d \in RawDoms} \ {Null})
    \cup {createHtmlDocument(title, lang, charset, viewport) :
            title \in DocTitles, lang \in DocLangs,
            charset \in DocCharsets, viewport \in DocViewports}

InitShape ==
  /\ root \in ProducedTrees
  /\ pre = root
  /\ op = "init"
  /\ arg = [kind |-> "none", val |-> ""]
  /\ visited = <<>>
  /\ calls = <<>>
  /\ result = FALSE
  /\ resources = <<>>
  /\ threw = FALSE
  /\ steps = 0
  /\ html = ""
  /\ dom = Null

SpecShape == InitShape /\ [][NextEdit]_vars

(***************************************************************************)
(* Vocabulary of the properties: the tree as a set of positions.  A path   *)
(* is the sequence of child indices leading from the input to a node; the  *)
(* items of an array input are its roots.                                  *)
(***************************************************************************)
Kids(v) ==
  IF IsArray(v) THEN v.items
  ELSE IF HasChildren(v) THEN v.children
  ELSE <<>>

RECURSIVE NodeAt(_, _)

NodeAt(v, path) ==
  IF path = <<>> THEN v ELSE NodeAt(Kids(v)[Head(path)], Tail(path))

RECURSIVE PathsOf(_)

PathsOf(v) ==
  {<<>>} \cup UNION {{<<i>> \o q : q \in PathsOf(Kids(v)[i])} : i \in 1..Len(Kids(v))}

\* paths no longer than this lead to the input itself or to a root
RootDepth(v) == IF IsArray(v) THEN 1 ELSE 0

RECURSIVE PreOrder(_)
RECURSIVE PreOrderEach(_)

\* every node of the input, parents before children, children left to right
PreOrder(v) ==
  IF v.type \in {"null", "undefined"} THEN <<>>
  ELSE IF IsArray(v) THEN PreOrderEach(v.items)
  ELSE <<v>> \o PreOrderEach(Kids(v))

PreOrderEach(nodes) ==
  IF nodes = <<>> THEN <<>>
  ELSE PreOrder(Head(nodes)) \o PreOrderEach(Tail(nodes))

RECURSIVE Canonical(_)

\* a text node, or an element with attribs and children whose children are
\* canonical
Canonical(v) ==
  \/ IsString(v)
  \/ /\ IsElement(v)
     /\ HasAttribs(v)
     /\ HasChildren(v)
     /\ \A i \in 1..Len(v.children) : Canonical(v.children[i])

CanonicalInput(v) ==
  \/ Canonical(v)
  \/ IsArray(v) /\ \A i \in 1..Len(v.items) : Canonical(v.items[i])

\* the NodeView of a node as the specification words it
ExpectedView(node) ==
  IF IsString(node)
  THEN [name |-> Null, attribs |-> Null, content |-> node]
  ELSE [name |-> Str(node.name),
        attribs |-> IF "attribs" \in DOMAIN node THEN Obj(node.attribs) ELSE Undefined,
        content |-> IF Len(Kids(node)) = 1 /\ Kids(node)[1].type = "string"
                    THEN Kids(node)[1] ELSE Null]

Range(s) == {s[i] : i \in 1..Len(s)}

\* C1: for every canonical tree or sequence of trees, visit is invoked
\* exactly once per node, text nodes included, in depth-first pre-order.
C1_VisitsEveryNodeInPreOrder ==
  (op = "traverse" /\ CanonicalInput(pre)) => visited = PreOrder(pre)

\* index of the first view the predicate accepts, 0 when it accepts none
FirstMatch(views, p) ==
  IF \E i \in 1..Len(views) : Test(p, views[i])
  THEN CHOOSE i \in 1..Len(views) :
         Test(p, views[i]) /\ \A j \in 1..(i - 1) : ~Test(p, views[j])
  ELSE 0

\* C2: hasNode is true exactly when the predicate accepts a node traverse
\* visits from the same input; the predicate receives the visited nodes in
\* traverse's order up to and including the first accepted one and none
\* after it; hasNode(null, p) and hasNode([], p) are false.
C2_ExistsIsShortCircuitTraverse ==
  op = "hasNode" =>
    LET t == traverse(pre)
        views == [i \in 1..Len(t) |-> getNodeProps(t[i])]
        m == FirstMatch(views, arg)
    IN /\ result = (m > 0)
       /\ Len(calls) = IF m > 0 THEN m ELSE Len(t)
       /\ \A i \in 1..Len(calls) : calls[i] = views[i]
       /\ (pre \in {Null, Arr(<<>>)} => result = FALSE)

C2_Witness ==
  /\ op = "hasNode"
  /\ result = TRUE
  /\ Len(calls) > 1
  /\ Len(calls) < Len(traverse(pre))

\* removeNodes removes the node at path: it lies below the roots and the
\* predicate accepts its view
Removed(v, p, path) ==
  Len(path) > RootDepth(v) /\ Test(p, ExpectedView(NodeAt(v, path)))

\* neither the node at path nor any of its ancestors is removed
Survives(v, p, path) ==
  \A k \in 0..Len(path) : ~Removed(v, p, SubSeq(path, 1, k))

\* the nodes below the roots whose parent survives
Evaluated(v, p) ==
  {path \in PathsOf(v) :
     /\ Len(path) > RootDepth(v)
     /\ Survives(v, p, SubSeq(path, 1, Len(path) - 1))}

RECURSIVE PrunedAt(_, _, _)

\* the node at path with every removed node below it taken out
PrunedAt(v, p, path) ==
  LET n == NodeAt(v, path)
      keep == SelectSeq([i \in 1..Len(Kids(n)) |-> i],
                        LAMBDA i : ~Removed(v, p, path \o <<i>>))
      kids == [k \in 1..Len(keep) |-> PrunedAt(v, p, path \o <<keep[k]>>)]
  IN IF IsArray(n) THEN Arr(kids)
     ELSE IF HasChildren(n) THEN SetChildren(n, kids)
     ELSE n

\* C3: every view a predicate receives from hasNode or removeNodes is the
\* view of the node it stands for: name and attribs null and content the
\* string for a text node; the element's own name and attribs, and content
\* the only child when that child is the single child and a string, null
\* otherwise.
C3_NodeViewShape ==
  /\ op = "hasNode" =>
       \A i \in 1..Len(calls) : calls[i] = ExpectedView(traverse(pre)[i])
  /\ op = "removeNodes" =>
       Range(calls) = {ExpectedView(NodeAt(pre, path)) : path \in Evaluated(pre, arg)}

C3_Witness ==
  /\ op = "removeNodes"
  /\ \E i \in 1..Len(calls) : calls[i].name = Null /\ calls[i].content = Str("x")
  /\ \E i \in 1..Len(calls) : calls[i].name = Str("div") /\ calls[i].content = Str("x")
  /\ \E path \in Evaluated(pre, arg) :
       /\ Len(Kids(NodeAt(pre, path))) > 1
       /\ IsString(Kids(NodeAt(pre, path))[1])
       /\ ExpectedView(NodeAt(pre, path)).content = Null
       /\ ExpectedView(NodeAt(pre, path)) \in Range(calls)

\* C4: removeNodes removes below the roots exactly the children whose view
\* the predicate accepts, keeps the others in order, evaluates the
\* predicate once on each child of a surviving node and on nothing else
\* (not on the roots, not inside a removed subtree).
C4_PruneExact ==
  op = "removeNodes" =>
    /\ root = PrunedAt(pre, arg, <<>>)
    /\ Len(calls) = Cardinality(Evaluated(pre, arg))
    /\ Range(calls) = {ExpectedView(NodeAt(pre, path)) : path \in Evaluated(pre, arg)}

C4_Witness ==
  /\ op = "removeNodes"
  /\ root # pre
  /\ \E path \in PathsOf(pre) :
       /\ Removed(pre, arg, path)
       /\ Survives(pre, arg, SubSeq(path, 1, Len(path) - 1))
       /\ Len(Kids(NodeAt(pre, path))) > 0
  /\ \E path \in PathsOf(pre) :
       /\ Len(path) = 2
       /\ Removed(pre, arg, path)
       /\ Survives(pre, arg, SubSeq(path, 1, 1))

ResourceKeys == <<"src", "href", "data", "action">>

\* one record per (node, key) with a non-empty value, by node in pre-order
\* and by key in the order of ResourceKeys
ExpectedResources(v) ==
  LET nodes == PreOrder(v)
      n == Len(ResourceKeys)
      nodeOf(k) == nodes[((k - 1) \div n) + 1]
      keyOf(k) == ResourceKeys[((k - 1) % n) + 1]
      has(k) == /\ IsElement(nodeOf(k))
                /\ "attribs" \in DOMAIN nodeOf(k)
                /\ \E e \in Range(nodeOf(k).attribs) : e.key = keyOf(k) /\ e.value # ""
      hits == SelectSeq([k \in 1..(n * Len(nodes)) |-> k], has)
  IN [h \in 1..Len(hits) |->
        [name |-> nodeOf(hits[h]).name,
         attribute |-> keyOf(hits[h]),
         value |-> (CHOOSE e \in Range(nodeOf(hits[h]).attribs) :
                      e.key = keyOf(hits[h])).value]]

\* C10: extractAllResources returns exactly one record per element and key
\* of src, href, data, action present with a non-empty value, ordered by
\* the node's pre-order position and then by that key order.
C10_ResourcesExact ==
  op = "extractAllResources" => resources = ExpectedResources(pre)

C10_Witness ==
  /\ op = "extractAllResources"
  /\ Len(resources) >= 4
  /\ \E i \in 1..(Len(resources) - 1) :
       /\ resources[i] = [name |-> "img", attribute |-> "src", value |-> "/s"]
       /\ resources[i + 1] = [name |-> "img", attribute |-> "href", value |-> "/h"]
  /\ \E i \in 1..Len(resources) : resources[i].name = "a"
  /\ \E path \in PathsOf(pre) : NodeAt(pre, path) = Str("")

(***************************************************************************)
(* Vocabulary of the properties of the mutation operations.                *)
(***************************************************************************)
Named(v, name) == IsElement(v) /\ v.name = name

\* index of the first child with that name, 0 when no child has it
FirstChildNamed(v, name) ==
  LET hits == {i \in 1..Len(Kids(v)) : Named(Kids(v)[i], name)}
  IN IF hits = {} THEN 0 ELSE CHOOSE i \in hits : \A j \in hits : i <= j

PathsNamed(v, name) == {path \in PathsOf(v) : Named(NodeAt(v, path), name)}

ElementCount(v) == Cardinality({path \in PathsOf(v) : IsElement(NodeAt(v, path))})

\* the children of the first head child, none when there is no head child
HeadChildren(v) ==
  IF FirstChildNamed(v, "head") > 0
  THEN Kids(Kids(v)[FirstChildNamed(v, "head")])
  ELSE <<>>

\* s without its element at index i
Without(s, i) == SubSeq(s, 1, i - 1) \o SubSeq(s, i + 1, Len(s))

\* C5: setTitle with a title somewhere in the tree leaves every title node
\* with children [text] and adds no element; with no title it inserts one
\* new {title, {}, [text]} at index 0 of head (created when absent), the
\* earlier head children following in order.
C5_SetTitle ==
  op = "setTitle" =>
    IF PathsNamed(pre, "title") # {}
    THEN /\ \A path \in PathsNamed(root, "title") :
              Kids(NodeAt(root, path)) = <<Str(arg.content)>>
         /\ \A path \in PathsNamed(pre, "title") :
              (\A k \in 0..(Len(path) - 1) :
                 SubSeq(path, 1, k) \notin PathsNamed(pre, "title"))
              => path \in PathsNamed(root, "title")
         /\ ElementCount(root) <= ElementCount(pre)
         /\ Len(Kids(root)) = IF Named(pre, "title") THEN 1 ELSE Len(Kids(pre))
    ELSE /\ FirstChildNamed(root, "head") > 0
         /\ HeadChildren(root)
              = <<El("title", <<>>, <<Str(arg.content)>>)>> \o HeadChildren(pre)
         /\ ElementCount(root)
              = ElementCount(pre) + (IF FirstChildNamed(pre, "head") > 0 THEN 1 ELSE 2)

C5_Witness ==
  /\ op = "setTitle"
  /\ Cardinality(PathsNamed(pre, "title")) >= 3
  /\ Cardinality(PathsNamed(root, "title")) >= 3
  /\ \E path \in PathsNamed(pre, "title") :
       Len(path) = 3 /\ Len(Kids(NodeAt(pre, path))) = 2
  /\ root # pre

\* C6: a second setCharset (or setViewport) call with the same argument,
\* right after the first, leaves the tree unchanged.
C6_SecondCallChangesNothing ==
  [][(/\ op \in {"setCharset", "setViewport"}
      /\ op' = op
      /\ arg' = arg) => root' = root]_vars

\* a meta node that signals a charset: a charset attribute is present, or
\* http-equiv is content-type and content contains charset, or name is
\* charset (the last three regardless of case)
SignalsCharset(node) ==
  /\ Named(node, "meta")
  /\ "attribs" \in DOMAIN node
  /\ \/ \E e \in Range(node.attribs) : e.key = "charset"
     \/ /\ \E e \in Range(node.attribs) :
             e.key = "http-equiv" /\ ToLowerCase(e.value) = "content-type"
        /\ \E e \in Range(node.attribs) :
             e.key = "content" /\ IncludesCharset(ToLowerCase(e.value))
     \/ \E e \in Range(node.attribs) :
          e.key = "name" /\ ToLowerCase(e.value) = "charset"

\* C7: setCharset leaves the tree unchanged when some meta node signals a
\* charset, and otherwise inserts one {meta, {charset}, []} at index 0 of
\* head.
C7_SetCharset ==
  op = "setCharset" =>
    IF \E path \in PathsOf(pre) : SignalsCharset(NodeAt(pre, path))
    THEN root = pre
    ELSE /\ FirstChildNamed(root, "head") > 0
         /\ HeadChildren(root)
              = <<El("meta", <<KV("charset", arg.charset)>>, <<>>)>> \o HeadChildren(pre)

\* the mapping { rel, href, ...additionalAttribs }
LinkAttribs(a) ==
  LET more == Range(a.additionalAttribs)
      moreKeys == {e.key : e \in more}
  IN {e \in {KV("rel", a.rel), KV("href", a.href)} : e.key \notin moreKeys} \cup more

\* C8: each insertLink and insertInlineScript call appends exactly one new
\* node after the children head had, whose order it keeps, whatever head
\* already holds: {link, {rel, href, ...additionalAttribs}, []} or
\* {script, {}, [text]}.
C8_InsertAppendsOne ==
  op \in {"insertLink", "insertInlineScript"} =>
    LET old == HeadChildren(pre)
        kids == HeadChildren(root)
        new == kids[Len(kids)]
    IN /\ FirstChildNamed(root, "head") > 0
       /\ Len(kids) = Len(old) + 1
       /\ SubSeq(kids, 1, Len(old)) = old
       /\ op = "insertInlineScript" => new = El("script", <<>>, <<Str(arg.scriptText)>>)
       /\ op = "insertLink" =>
            /\ Named(new, "link")
            /\ new.children = <<>>
            /\ Range(new.attribs) = LinkAttribs(arg)
            /\ Len(new.attribs) = Cardinality(LinkAttribs(arg))

C8_Witness ==
  /\ op = "insertLink"
  /\ steps = 2
  /\ Len(HeadChildren(root)) = 3
  /\ HeadChildren(root)[2] = HeadChildren(root)[3]
  /\ HeadChildren(pre)[2] = HeadChildren(root)[3]
  /\ Get(HeadChildren(root)[3].attribs, "rel") = Str("preload")

\* the call went through ensureHeadNode
UsedHead ==
  \/ op \in {"insertLink", "insertInlineScript"}
  \/ op = "setTitle" /\ PathsNamed(pre, "title") = {}
  \/ op \in {"setCharset", "setViewport"} /\ root # pre

\* C9: ensureHeadNode uses the existing head child and leaves the other
\* children of root alone; without one it inserts {head, {}, []} right
\* before the first body child, or first when there is no body, and the
\* caller's node goes into it.  A root with at most one head child keeps
\* at most one.
C9_EnsureHead ==
  /\ UsedHead =>
       LET h == FirstChildNamed(pre, "head")
           b == FirstChildNamed(pre, "body")
           at == IF h > 0 THEN h ELSE IF b > 0 THEN b ELSE 1
           head == Kids(root)[at]
       IN /\ at <= Len(Kids(root))
          /\ Named(head, "head")
          /\ at = FirstChildNamed(root, "head")
          /\ Len(Kids(head)) = Len(HeadChildren(pre)) + 1
          /\ IF h > 0
             THEN /\ Len(Kids(root)) = Len(Kids(pre))
                  /\ Without(Kids(root), at) = Without(Kids(pre), at)
                  /\ head.attribs = Kids(pre)[h].attribs
             ELSE /\ Without(Kids(root), at) = Kids(pre)
                  /\ head.attribs = <<>>
  /\ Cardinality(PathsNamed(pre, "head") \cap {<<i>> : i \in 1..Len(Kids(pre))}) <= 1
       => Cardinality(PathsNamed(root, "head") \cap {<<i>> : i \in 1..Len(Kids(root))}) <= 1

C9_Witness ==
  /\ op = "insertLink"
  /\ FirstChildNamed(pre, "head") = 0
  /\ FirstChildNamed(pre, "body") = 2
  /\ FirstChildNamed(root, "head") = 2
  /\ FirstChildNamed(root, "body") = 3
  /\ Kids(root)[1] = Str("x")

(***************************************************************************)
(* Properties of the codec.                                                *)
(***************************************************************************)
VoidNames == {"meta", "base", "link", "img", "br", "hr", "input", "area", "source"}

OwnAttribs(node) == IF "attribs" \in DOMAIN node THEN node.attribs ELSE <<>>

RECURSIVE Concat(_)

Concat(strings) ==
  IF strings = <<>> THEN "" ELSE Head(strings) \o Concat(Tail(strings))

RECURSIVE ExpectedHtml(_)

\* the serialization the specification words: the name, then each
\* attribute after one space, then " />" for a childless void element and
\* otherwise ">", the children and the closing tag
ExpectedHtml(node) ==
  IF node.type = "string" THEN node.value
  ELSE LET attrs == Concat([i \in 1..Len(OwnAttribs(node)) |->
                              " " \o OwnAttribs(node)[i].key \o "=\""
                                  \o OwnAttribs(node)[i].value \o "\""])
       IN IF node.name \in VoidNames /\ Len(Kids(node)) = 0
          THEN "<" \o node.name \o attrs \o " />"
          ELSE "<" \o node.name \o attrs \o ">"
               \o Concat([i \in 1..Len(Kids(node)) |-> ExpectedHtml(Kids(node)[i])])
               \o "</" \o node.name \o ">"

\* C11: jsonToHtml writes a text node as it is, a childless void element
\* as <name /> or <name k="v" ... />, and every other element as its
\* opening tag, its children in order and its closing tag.
C11_Serialization ==
  op = "jsonToHtml" => html = ExpectedHtml(pre)

C11_Witness ==
  /\ op = "jsonToHtml"
  /\ \E path \in PathsOf(pre) :
       /\ Named(NodeAt(pre, path), "link")
       /\ Len(Kids(NodeAt(pre, path))) = 2
       /\ Len(OwnAttribs(NodeAt(pre, path))) = 2
  /\ \E path \in PathsOf(pre) :
       Named(NodeAt(pre, path), "img") /\ Len(OwnAttribs(NodeAt(pre, path))) = 2
  /\ \E path \in PathsOf(pre) :
       Named(NodeAt(pre, path), "hr") /\ "children" \notin DOMAIN NodeAt(pre, path)
  /\ html = "<html><link id=\"i\" class=\"c\"><img src=\"/s\" alt=\"a b\" /><hr /></link></html>"

NonBlank(text) ==
  \E i \in 1..Len(text) : SubSeq(text, i, i) \notin WhiteSpace

RawKids(raw) == IF "children" \in DOMAIN raw THEN raw.children ELSE <<>>

Kept(raw) ==
  \/ raw.type \in {"tag", "script", "style"}
  \/ raw.type = "text" /\ NonBlank(raw.data)

RECURSIVE Mapped(_)

\* the tree the specification words for a raw node that is kept
Mapped(raw) ==
  IF raw.type = "text" THEN Str(raw.data)
  ELSE LET kept == SelectSeq(RawKids(raw), Kept)
       IN [type |-> "object",
           name |-> raw.name,
           attribs |-> IF "attribs" \in DOMAIN raw THEN raw.attribs ELSE <<>>,
           children |-> [i \in 1..Len(kept) |-> Mapped(kept[i])]]

TopLevelHtml(d) ==
  {i \in 1..Len(d.children) :
     "name" \in DOMAIN d.children[i] /\ d.children[i].name = "html"}

\* C12: htmlToJson returns null when no top-level raw node is named html,
\* and otherwise the mapping of the first one: non-blank text verbatim,
\* blank text and every node that is not a tag, script, style or text
\* dropped with its subtree, order kept; the result holds no blank string.
C12_ToTree ==
  op = "htmlToJson" =>
    /\ TopLevelHtml(dom) = {} => root = Null
    /\ \A i \in TopLevelHtml(dom) :
         (\A j \in TopLevelHtml(dom) : i <= j) => root = Mapped(dom.children[i])
    /\ root # Null =>
         \A path \in PathsOf(root) :
           IsString(NodeAt(root, path)) => NonBlank(NodeAt(root, path).value)

C12_Witness ==
  /\ op = "htmlToJson"
  /\ ~arg.roundTrip
  /\ Len(dom.children) = 3
  /\ dom.children[1].type = "directive"
  /\ dom.children[3].children =
       <<RawTag("body", <<>>, <<[type |-> "comment", data |-> " c "], RawText(" a ")>>),
         RawText("\n")>>
  /\ root = El("html", <<KV("lang", "en")>>, <<El("body", <<>>, <<Str(" a ")>>)>>)

C12_WitnessNoHtml ==
  /\ op = "htmlToJson"
  /\ root = Null
  /\ dom = RawDocument(<<RawTag("div", <<>>, <<RawText("test")>>)>>)

CreatedDocuments ==
  {createHtmlDocument(title, lang, charset, viewport) :
     title \in DocTitles, lang \in DocLangs,
     charset \in DocCharsets, viewport \in DocViewports}

\* C13: for every tree T built by createHtmlDocument, htmlToJson of
\* jsonToHtml(T) is a tree with T's name, T's attribs mapping and as many
\* top-level children as T.
C13_RoundTrip ==
  (op = "htmlToJson" /\ arg.roundTrip /\ pre \in CreatedDocuments) =>
    /\ root # Null
    /\ root.name = pre.name
    /\ Range(root.attribs) = Range(pre.attribs)
    /\ Len(root.attribs) = Len(pre.attribs)
    /\ Len(root.children) = Len(pre.children)

\* the same round trip for the documents whose lang holds no double quote
C13_RoundTripPlainLang ==
  (op = "htmlToJson" /\ arg.roundTrip /\ pre \in CreatedDocuments
     /\ Get(pre.attribs, "lang") # Str("en\" dir=\"rtl")) =>
    /\ root # Null
    /\ root.name = pre.name
    /\ Range(root.attribs) = Range(pre.attribs)
    /\ Len(root.children) = Len(pre.children)

(***************************************************************************)
(* Properties of the mutation operations on any tree.                      *)
(***************************************************************************)
EditOps == {"setTitle", "setCharset", "setViewport", "insertLink", "insertInlineScript"}

\* the call found no target and builds its node
Constructs ==
  \/ op \in {"insertLink", "insertInlineScript"}
  \/ op = "setTitle" /\ PathsNamed(pre, "title") = {}
  \/ op = "setCharset" /\ ~hasNode(pre, [kind |-> "charset"]).found
  \/ op = "setViewport" /\ ~hasNode(pre, [kind |-> "viewport"]).found

\* node is the node the call builds
IsConstructed(node) ==
  /\ IsElement(node)
  /\ HasAttribs(node)
  /\ HasChildren(node)
  /\ CASE op = "setTitle" ->
            node.name = "title" /\ node.children = <<Str(arg.content)>>
       [] op = "setCharset" ->
            node = El("meta", <<KV("charset", arg.charset)>>, <<>>)
       [] op = "setViewport" ->
            node = El("meta", <<KV("name", "viewport"), KV("content", arg.content)>>, <<>>)
       [] op = "insertLink" ->
            /\ node.name = "link"
            /\ Range(node.attribs) = LinkAttribs(arg)
            /\ node.children = <<>>
       [] op = "insertInlineScript" ->
            node = El("script", <<>>, <<Str(arg.scriptText)>>)
       [] OTHER -> FALSE

\* C14: no mutation operation throws; a call that finds no target builds
\* the missing node, and that node is reachable from root afterwards, also
\* when root or head has no children sequence.
C14_NeverThrowsSelfHeals ==
  /\ op \in EditOps \cup {"removeNodes"} => ~threw
  /\ (op \in EditOps /\ Constructs) =>
       \E path \in PathsOf(root) : IsConstructed(NodeAt(root, path))

(***************************************************************************)
(* Properties of removeNodes under particular predicates.                  *)
(***************************************************************************)
EmptyDiv(node) == Named(node, "div") /\ Len(Kids(node)) = 0

RECURSIVE StripEmptyDivs(_)

\* v with every div that has no children taken out of its parent's
\* children; the roots stay
StripEmptyDivs(v) ==
  IF IsArray(v) THEN Arr([i \in 1..Len(v.items) |-> StripEmptyDivs(v.items[i])])
  ELSE IF IsElement(v) /\ HasChildren(v)
       THEN LET kept == SelectSeq(v.children, LAMBDA n : ~EmptyDiv(n))
            IN SetChildren(v, [i \in 1..Len(kept) |-> StripEmptyDivs(kept[i])])
  ELSE v

\* C15: removeNodes with the predicate
\* node => node.name === 'div' && (!node.children || node.children.length === 0)
\* deletes exactly the div elements that have no children and leaves every
\* div that has at least one child.
C15_RemovesExactlyEmptyDivs ==
  (op = "removeNodes" /\ arg.kind = "emptyDiv") => root = StripEmptyDivs(pre)

\* C16: starting from a tree htmlToJson or createHtmlDocument returns,
\* after any sequence of setTitle, setCharset, setViewport, insertLink,
\* insertInlineScript and removeNodes calls every element reachable from
\* root has an attribs mapping and a children sequence, and every child is
\* a string or such an element.
C16_CanonicalShape == Canonical(root) /\ IsElement(root)

C16_Witness ==
  /\ op = "removeNodes"
  /\ root # pre
  /\ steps = MaxOps
  /\ PathsNamed(root, "script") # {}
  /\ PathsNamed(root, "head") # {}
  /\ Canonical(root)

\* the paths of v below its roots whose node the predicate accepts
Accepted(v, p) ==
  {path \in PathsOf(v) :
     Len(path) > RootDepth(v) /\ Test(p, ExpectedView(NodeAt(v, path)))}

\* the predicate reads nothing of a view but its name and its attribs
ReadsNameAndAttribsOnly(p) == p.kind \in {"name", "class", "always", "emptyDiv"}

\* C17 as stated: for every predicate, after removeNodes no node below the
\* roots is accepted by the predicate, and a second removeNodes with the
\* same predicate leaves the tree unchanged.
C17_PruneComplete ==
  op = "removeNodes" =>
    /\ Accepted(root, arg) = {}
    /\ removeNodes(root, arg).node = root

\* C17, amended: for every predicate that reads only the name and the
\* attribs of a view, after removeNodes no node below the roots is accepted
\* by the predicate, and a second removeNodes with the same predicate
\* leaves the tree unchanged.
C17_PruneCompleteNameAttribs ==
  (op = "removeNodes" /\ ReadsNameAndAttribsOnly(arg)) =>
    /\ Accepted(root, arg) = {}
    /\ removeNodes(root, arg).node = root

C17_Witness ==
  /\ op = "removeNodes"
  /\ arg.kind = "class"
  /\ root # pre
  /\ \E path \in Accepted(pre, arg) : Len(path) > RootDepth(pre) + 1
  /\ \E path \in PathsOf(pre) :
       Cardinality({i \in 1..Len(Kids(NodeAt(pre, path))) :
                      (path \o <<i>>) \in Accepted(pre, arg)}) > 1
  /\ Accepted(root, arg) = {}

====
